---- MODULE Spec2Model ----
(***************************************************************************)
(* Verification model of two parts of the repository:                      *)
(*   - river/naive_bayes/complement.py : ComplementNB, the incremental     *)
(*     Complement Naive Bayes estimator (learn_one / learn_many / p_class  *)
(*     / joint_log_likelihood / joint_log_likelihood_many);                *)
(*   - creme/compat/creme_to_sklearn.py : the scikit-learn adapters        *)
(*     (Creme2SKLRegressor, Creme2SKLClassifier, Creme2SKLTransformer,     *)
(*     Creme2SKLClusterer and convert_creme_to_sklearn).                   *)
(* Spec is the ComplementNB state machine, SpecAdapter the adapter's.      *)
(***************************************************************************)
EXTENDS Integers, Sequences, FiniteSets, TLC

(***************************************************************************)
(* Bounds of the ComplementNB model.                                       *)
(***************************************************************************)
MaxRows == 2
MaxSamples == 3

Features == {"f1", "f2"}
Classes == {"a", "b"}
Freqs == {0, 1}
Alphas == {0, 1, 2}

VARIABLES
    nb,        \* the ComplementNB object: class_counts, feature_counts, feature_totals, class_totals
    prev,      \* nb as it was when the call being observed started
    last,      \* the call being observed, until it returns: its name and arguments
    out,       \* what that call returned or raised
    taught,    \* per label, the number of samples handed to learn_one and learn_many so far
    alpha      \* the alpha the ComplementNB was constructed with

nbvars == <<nb, prev, last, out, taught, alpha>>

(***************************************************************************)
(* Python mappings are functions whose DOMAIN is the key set.              *)
(***************************************************************************)
EmptyMap == [k \in {} |-> 0]

Get(m, k, d) == IF k \in DOMAIN m THEN m[k] ELSE d

RECURSIVE SumOver(_, _)
SumOver(m, S) ==
    IF S = {} THEN 0
    ELSE LET k == CHOOSE k \in S : TRUE IN m[k] + SumOver(m, S \ {k})

SumValues(m) == SumOver(m, DOMAIN m)

Range(s) == {s[i] : i \in DOMAIN s}

\* collections.Counter.update(mapping): counts are added, keys are created
Counter_update(cnt, m) ==
    [k \in (DOMAIN cnt) \cup (DOMAIN m) |-> Get(cnt, k, 0) + Get(m, k, 0)]

\* dict.update(mapping): values are replaced, keys are created
dict_update(d, m) ==
    [k \in (DOMAIN d) \cup (DOMAIN m) |-> IF k \in DOMAIN m THEN m[k] ELSE d[k]]

\* ComplementNB.__init__
ComplementNB_init ==
    [class_counts |-> EmptyMap,
     feature_counts |-> EmptyMap,
     feature_totals |-> EmptyMap,
     class_totals |-> EmptyMap]

\* feature_counts[f] of a defaultdict(Counter): a missing key makes a Counter.
\* A value is tagged with its Python type, since Counter.update adds and
\* dict.update replaces.
feature_counts_getitem(fc, f) ==
    IF f \in DOMAIN fc THEN fc[f] ELSE [kind |-> "Counter", m |-> EmptyMap]

\* feature_counts[f].update({y: frequency})
inner_update(inner, m) ==
    [kind |-> inner.kind,
     m |-> IF inner.kind = "Counter" THEN Counter_update(inner.m, m)
           ELSE dict_update(inner.m, m)]

\* the loop of learn_one over x.items(); todo is the set of keys still to visit
RECURSIVE learn_one_items(_, _, _, _)
learn_one_items(s, x, y, todo) ==
    IF todo = {} THEN s
    ELSE LET f == CHOOSE f \in todo : TRUE
             frequency == x[f]
             inner == inner_update(feature_counts_getitem(s.feature_counts, f), y :> frequency)
             s1 == [s EXCEPT
                      !.feature_counts = dict_update(@, f :> inner),
                      !.feature_totals = Counter_update(@, f :> frequency),
                      !.class_totals = Counter_update(@, y :> frequency)]
         IN learn_one_items(s1, x, y, todo \ {f})

\* ComplementNB.learn_one
learn_one(s, x, y) ==
    learn_one_items([s EXCEPT !.class_counts = Counter_update(@, y :> 1)],
                    x, y, DOMAIN x)

\* A table X is [columns |-> sequence of distinct features,
\*               rows |-> sequence of tuples, one value per column].
ColumnPos(X, f) == CHOOSE j \in DOMAIN X.columns : X.columns[j] = f

\* base.Groupby(keys=y): the distinct labels
Groupby_index(y) == Range(y)

\* base.Groupby(keys=y).apply(np.sum, X.values): per label, the column sums
Groupby_apply_sum(X, y) ==
    [c \in Groupby_index(y) |->
        [j \in DOMAIN X.columns |->
            SumValues([i \in {i \in DOMAIN y : y[i] = c} |-> X.rows[i][j]])]]

\* counting each label of the batch once
value_counts_once(y) == [c \in Range(y) |-> 1]

\* y.value_counts().to_dict()
value_counts(y) ==
    [c \in Range(y) |-> Cardinality({i \in DOMAIN y : y[i] = c})]

\* learn_many counting each distinct label of the batch once
learn_many_labels_once(s, X, y) ==
    LET agg == Groupby_apply_sum(X, y)
        index == Groupby_index(y)
        cols == Range(X.columns)
        aggT == [f \in cols |->
                    [kind |-> "dict", m |-> [c \in index |-> agg[c][ColumnPos(X, f)]]]]
        Xsum == [f \in cols |->
                    SumValues([i \in DOMAIN X.rows |-> X.rows[i][ColumnPos(X, f)]])]
        aggsum == [c \in index |-> SumValues(agg[c])]
    IN [class_counts |-> Counter_update(s.class_counts, [c \in index |-> 1]),
        feature_counts |-> dict_update(s.feature_counts, aggT),
        feature_totals |-> Counter_update(s.feature_totals, Xsum),
        class_totals |-> Counter_update(s.class_totals, aggsum)]

\* ComplementNB.learn_many
learn_many(s, X, y) ==
    LET agg == Groupby_apply_sum(X, y)
        index == Groupby_index(y)
        cols == Range(X.columns)
        aggT == [f \in cols |->
                    [kind |-> "dict", m |-> [c \in index |-> agg[c][ColumnPos(X, f)]]]]
        Xsum == [f \in cols |->
                    SumValues([i \in DOMAIN X.rows |-> X.rows[i][ColumnPos(X, f)]])]
        aggsum == [c \in index |-> SumValues(agg[c])]
    IN [class_counts |-> Counter_update(s.class_counts, value_counts(y)),
        feature_counts |-> dict_update(s.feature_counts, aggT),
        feature_totals |-> Counter_update(s.feature_totals, Xsum),
        class_totals |-> Counter_update(s.class_totals, aggsum)]

(***************************************************************************)
(* Numbers.  A float quotient n/d is the fraction in lowest terms.  A sum  *)
(* of terms frequency * -log(n/d) is -log of the product of (n/d)^frequency *)
(* and -log is injective, so a log-likelihood is kept as that product, in   *)
(* lowest terms: two log-likelihoods are equal iff their products are.      *)
(***************************************************************************)
RECURSIVE GCD(_, _)
GCD(a, b) == IF b = 0 THEN a ELSE GCD(b, a % b)

Rat(n, d) == LET g == GCD(n, d) IN [num |-> n \div g, den |-> d \div g]

RECURSIVE Pow(_, _)
Pow(b, e) == IF e = 0 THEN 1 ELSE b * Pow(b, e - 1)

Returned(v) == [raised |-> "none", value |-> v]
Raised(e) == [raised |-> e, value |-> EmptyMap]

\* ComplementNB.p_class
p_class(s, c) ==
    LET total == SumValues(s.class_counts)
    IN IF total = 0 THEN Raised("ZeroDivisionError")
       ELSE Returned(Rat(Get(s.class_counts, c, 0), total))

\* the numerator of the complement rate of feature f for class c
rate_num(s, f, c) ==
    Get(s.feature_totals, f, 0)
    - Get(feature_counts_getitem(s.feature_counts, f).m, c, 0)
    + 1

\* the denominator without the smoothing term
rate_den_unsmoothed(s, c) == Get(s.class_totals, c, 0)

\* the denominator of the complement rate for class c
rate_den(s, c) ==
    Get(s.class_totals, c, 0) + 1 * Cardinality(DOMAIN s.feature_counts)

\* the sum of joint_log_likelihood for one class over x.items(), as a product
RECURSIVE jll_terms(_, _, _, _)
jll_terms(s, x, c, todo) ==
    IF todo = {} THEN [num |-> 1, den |-> 1]
    ELSE LET f == CHOOSE f \in todo : TRUE
             rest == jll_terms(s, x, c, todo \ {f})
         IN [num |-> Pow(rate_num(s, f, c), x[f]) * rest.num,
             den |-> Pow(rate_den(s, c), x[f]) * rest.den]

\* ComplementNB.joint_log_likelihood
joint_log_likelihood(s, x) ==
    IF DOMAIN x # {} /\ \E c \in DOMAIN s.class_counts : rate_den(s, c) = 0
    THEN Raised("ZeroDivisionError")
    ELSE IF \E c \in DOMAIN s.class_counts, f \in DOMAIN x : rate_num(s, f, c) <= 0
    THEN Raised("ValueError(math domain error)")
    ELSE Returned([c \in DOMAIN s.class_counts |->
                      LET p == jll_terms(s, x, c, DOMAIN x) IN Rat(p.num, p.den)])

\* row i of table X as the feature map learn_one and joint_log_likelihood take
RowAsDict(X, i) == [f \in Range(X.columns) |-> X.rows[i][ColumnPos(X, f)]]

\* the columns of f and fwc in joint_log_likelihood_many: known, then unknown
known_columns(s, X) == SelectSeq(X.columns, LAMBDA f : f \in DOMAIN s.feature_counts)
unknown_columns(s, X) == SelectSeq(X.columns, LAMBDA f : f \notin DOMAIN s.feature_counts)
fwc_columns(s, X) == known_columns(s, X) \o unknown_columns(s, X)

\* the index of pd.DataFrame(self.feature_counts): every class of every inner mapping
fwc_index(s) == UNION {DOMAIN s.feature_counts[f].m : f \in DOMAIN s.feature_counts}

\* X @ fwc.values.T for one row and one class: column j of X meets column j of fwc
RECURSIVE matmul_terms(_, _, _, _, _)
matmul_terms(s, X, i, c, j) ==
    IF j = 0 THEN [num |-> 1, den |-> 1]
    ELSE LET f == fwc_columns(s, X)[j]
             rest == matmul_terms(s, X, i, c, j - 1)
         IN [num |-> Pow(rate_num(s, f, c), X.rows[i][j]) * rest.num,
             den |-> Pow(rate_den(s, c), X.rows[i][j]) * rest.den]

\* ComplementNB.joint_log_likelihood_many (at least one feature learned)
joint_log_likelihood_many(s, X) ==
    IF Cardinality(fwc_index(s)) # Cardinality(DOMAIN s.class_counts)
    THEN Raised("ValueError")
    ELSE Returned([i \in DOMAIN X.rows |->
                      [c \in fwc_index(s) |->
                          LET p == matmul_terms(s, X, i, c, Len(X.columns))
                          IN Rat(p.num, p.den)]])

(***************************************************************************)
(* What the queries do to the state: the lookups they make.                *)
(***************************************************************************)
\* a lookup that stores the default under a missing key, as defaultdict does
defaultdict_after_getitem(cnt, k) ==
    IF k \in DOMAIN cnt THEN cnt ELSE [j \in (DOMAIN cnt) \cup {k} |-> Get(cnt, j, 0)]

\* a Counter after cnt[k]: a missing key reads as 0 and is not stored
Counter_after_getitem(cnt, k) == cnt

\* a Counter after cnt[k] for every k of keys
RECURSIVE Counter_after_lookups(_, _)
Counter_after_lookups(cnt, keys) ==
    IF keys = {} THEN cnt
    ELSE LET k == CHOOSE k \in keys : TRUE
         IN Counter_after_lookups(Counter_after_getitem(cnt, k), keys \ {k})

\* the object after p_class(c): self.class_counts[c]
after_p_class(s, c) ==
    [s EXCEPT !.class_counts = Counter_after_getitem(@, c)]

\* the object after joint_log_likelihood(x): self.feature_totals[f] and
\* self.class_totals[c] for each class and each item of x;
\* self.feature_counts.get(f, {}) stores nothing
after_joint_log_likelihood(s, x) ==
    IF DOMAIN s.class_counts = {} \/ DOMAIN x = {} THEN s
    ELSE [s EXCEPT !.feature_totals = Counter_after_lookups(@, DOMAIN x),
                   !.class_totals = Counter_after_lookups(@, DOMAIN s.class_counts)]

\* the object after joint_log_likelihood_many(X): self.class_totals[c] for
\* each class; the frames built from the mappings are copies
after_joint_log_likelihood_many(s, X) ==
    [s EXCEPT !.class_totals = Counter_after_lookups(@, DOMAIN s.class_counts)]

(***************************************************************************)
(* Inputs.                                                                 *)
(***************************************************************************)
QueryClasses == Classes \cup {"c"}

XDicts == UNION {[S -> Freqs] : S \in SUBSET Features}

ColumnLists ==
    {cl \in UNION {[1..n -> Features] : n \in 1..Cardinality(Features)} :
        \A i, j \in DOMAIN cl : cl[i] = cl[j] => i = j}

Tables(n) ==
    UNION {[columns : {cl}, rows : [1..n -> [1..Len(cl) -> Freqs]]] : cl \in ColumnLists}

Samples(s) == SumValues(s.class_counts)

NoCall == [op |-> "none"]
NoOut == Returned(EmptyMap)

(***************************************************************************)
(* The ComplementNB state machine.                                         *)
(***************************************************************************)
NBInit ==
    /\ nb = ComplementNB_init
    /\ prev = ComplementNB_init
    /\ last = NoCall
    /\ out = NoOut
    /\ taught = [c \in Classes |-> 0]
    /\ alpha \in Alphas

LearnOne ==
    /\ last = NoCall
    /\ Samples(nb) + 1 <= MaxSamples
    /\ \E x \in XDicts, y \in Classes :
        /\ nb' = learn_one(nb, x, y)
        /\ prev' = nb
        /\ last' = [op |-> "learn_one", x |-> x, y |-> y]
        /\ out' = NoOut
        /\ taught' = [taught EXCEPT ![y] = @ + 1]
        /\ UNCHANGED alpha

LearnMany ==
    \E n \in 1..MaxRows :
        /\ last = NoCall
        /\ Samples(nb) + n <= MaxSamples
        /\ \E X \in Tables(n), y \in [1..n -> Classes] :
            /\ nb' = learn_many(nb, X, y)
            /\ prev' = nb
            /\ last' = [op |-> "learn_many", X |-> X, y |-> y]
            /\ out' = NoOut
            /\ taught' = [c \in Classes |->
                             taught[c] + Cardinality({i \in DOMAIN y : y[i] = c})]
            /\ UNCHANGED alpha

PClass ==
    \E c \in QueryClasses :
        /\ last = NoCall
        /\ out' = p_class(nb, c)
        /\ last' = [op |-> "p_class", c |-> c]
        /\ prev' = nb
        /\ nb' = after_p_class(nb, c)
        /\ UNCHANGED <<taught, alpha>>

JointLogLikelihood ==
    \E x \in XDicts :
        /\ last = NoCall
        /\ out' = joint_log_likelihood(nb, x)
        /\ last' = [op |-> "joint_log_likelihood", x |-> x]
        /\ prev' = nb
        /\ nb' = after_joint_log_likelihood(nb, x)
        /\ UNCHANGED <<taught, alpha>>

JointLogLikelihoodMany ==
    \E X \in Tables(1) :
        /\ last = NoCall
        /\ DOMAIN nb.feature_counts # {}
        /\ out' = joint_log_likelihood_many(nb, X)
        /\ last' = [op |-> "joint_log_likelihood_many", X |-> X]
        /\ prev' = nb
        /\ nb' = after_joint_log_likelihood_many(nb, X)
        /\ UNCHANGED <<taught, alpha>>

\* the call has returned to its caller: its frame (last, prev, out) is dropped.
\* Calls are synchronous, so a call starts only when no other is in progress.
NBReturn ==
    /\ last # NoCall
    /\ last' = NoCall
    /\ prev' = ComplementNB_init
    /\ out' = NoOut
    /\ UNCHANGED <<nb, taught, alpha>>

NBNext ==
    \/ NBReturn
    \/ LearnOne
    \/ LearnMany
    \/ PClass
    \/ JointLogLikelihood
    \/ JointLogLikelihoodMany


(***************************************************************************)
(* Properties of ComplementNB.                                             *)
(***************************************************************************)
\* feature_counts[f].get(c, 0), without creating the key
feature_count(s, f, c) == Get(feature_counts_getitem(s.feature_counts, f).m, c, 0)

\* rows i..Len(y) of the batch replayed through learn_one, in row order
RECURSIVE ReplayLearnOne(_, _, _, _)
ReplayLearnOne(s, X, y, i) ==
    IF i > Len(y) THEN s
    ELSE ReplayLearnOne(learn_one(s, RowAsDict(X, i), y[i]), X, y, i + 1)

SameStatistics(s, t) ==
    /\ s.class_counts = t.class_counts
    /\ s.feature_totals = t.feature_totals
    /\ s.class_totals = t.class_totals
    /\ DOMAIN s.feature_counts = DOMAIN t.feature_counts
    /\ \A f \in Features, c \in Classes : feature_count(s, f, c) = feature_count(t, f, c)

\* C1: on a freshly constructed ComplementNB, one learn_many call on a batch
\* leaves the same class_counts, feature_totals, class_totals, feature keys and
\* feature_counts[f].get(c, 0) as learn_one called once per row in row order.
C1_BatchEqualsSingleFromFresh ==
    (last.op = "learn_many" /\ prev = ComplementNB_init)
        => SameStatistics(nb, ReplayLearnOne(ComplementNB_init, last.X, last.y, 1))

\* a two-row batch with one label and a feature seen in both rows, learned first
C1_Witness ==
    /\ last.op = "learn_many"
    /\ prev = ComplementNB_init
    /\ Len(last.y) = 2
    /\ last.y[1] = last.y[2]
    /\ \E f \in DOMAIN nb.feature_totals : nb.feature_totals[f] = 2

\* what a batch adds to feature f under class c
BatchFeatureClass(X, y, f, c) ==
    IF f \in Range(X.columns)
    THEN SumValues([i \in {i \in DOMAIN y : y[i] = c} |-> X.rows[i][ColumnPos(X, f)]])
    ELSE 0

\* C2: from any reachable state, learn_many(X, y) leaves feature_counts[f][c],
\* feature_totals[f], class_totals[c] and class_counts[c] equal to their
\* previous value plus the batch's contribution.
C2_LearnManyAddsToState ==
    last.op = "learn_many" =>
        \A f \in Features, c \in Classes :
            /\ feature_count(nb, f, c)
                 = feature_count(prev, f, c) + BatchFeatureClass(last.X, last.y, f, c)
            /\ Get(nb.feature_totals, f, 0)
                 = Get(prev.feature_totals, f, 0)
                   + BatchFeatureClass(last.X, last.y, f, "a")
                   + BatchFeatureClass(last.X, last.y, f, "b")
            /\ Get(nb.class_totals, c, 0)
                 = Get(prev.class_totals, c, 0)
                   + SumValues([g \in Features |-> BatchFeatureClass(last.X, last.y, g, c)])
            /\ Get(nb.class_counts, c, 0)
                 = Get(prev.class_counts, c, 0)
                   + Cardinality({i \in DOMAIN last.y : last.y[i] = c})

\* C3: for every observed class c, class_totals[c] is the sum over the observed
\* features f of feature_counts[f].get(c, 0).
C3_ClassTotalsAreColumnSums ==
    \A c \in DOMAIN nb.class_counts :
        Get(nb.class_totals, c, 0)
            = SumValues([f \in DOMAIN nb.feature_counts |-> feature_count(nb, f, c)])

\* C4: for every observed feature f, feature_totals[f] is the sum over the
\* observed classes c of feature_counts[f].get(c, 0).
C4_FeatureTotalsAreRowSums ==
    \A f \in DOMAIN nb.feature_counts :
        Get(nb.feature_totals, f, 0)
            = SumValues([c \in DOMAIN nb.class_counts |-> feature_count(nb, f, c)])

\* C5: in every reachable state, the empty one included, p_class(c) of a class
\* never observed returns exactly 0.0 and does not raise.
C5_UnseenClassPriorIsZero ==
    (last.op = "p_class" /\ last.c \notin DOMAIN nb.class_counts)
        => out = Returned([num |-> 0, den |-> 1])

\* C6: joint_log_likelihood_many(X) has, for each row and each class observed
\* so far, the value joint_log_likelihood gives for that row, whatever the
\* order of seen and never-seen columns, and every class gets a column.
\* Stated on the trained states in which every observed class was learned with
\* at least one feature, so that the frame of feature counts has a row per class.
C6_BatchScoresEqualRowScores ==
    (last.op = "joint_log_likelihood_many" /\ fwc_index(nb) = DOMAIN nb.class_counts) =>
        /\ out.raised = "none"
        /\ \A i \in DOMAIN last.X.rows :
              LET single == joint_log_likelihood(nb, RowAsDict(last.X, i))
              IN /\ single.raised = "none"
                 /\ DOMAIN out.value[i] = DOMAIN nb.class_counts
                 /\ \A c \in DOMAIN nb.class_counts : out.value[i][c] = single.value[c]

(***************************************************************************)
(* The scikit-learn adapters of creme/compat/creme_to_sklearn.py.          *)
(*                                                                         *)
(* Estimator objects live in a heap: object 0 is the estimator the caller  *)
(* passed, objects 1 and 2 are deep copies (a copy takes the slot the      *)
(* previous copy does not hold).  An object's state is the sequence of     *)
(* fit_one calls it has received.  The adapter's attributes are its        *)
(* __dict__: a mapping whose DOMAIN is the set of attributes that exist.   *)
(***************************************************************************)
MaxLearned == 2

None == -1

RowVals == {1, 2}

\* The adapters never read a row's values, only hand them on, so a row is a
\* token and each token comes with its own target: row 1 with 10, row 2 with 20.
LabelOf(x) == 10 * x
ColCounts == {1, 2}
Labels == {LabelOf(x) : x \in RowVals}

EstimatorTypes ==
    {"Regressor", "BinaryClassifier", "MultiClassifier",
     "Transformer", "SupervisedTransformer", "Clusterer", "Estimator"}

Wrappers ==
    {"Creme2SKLRegressor", "Creme2SKLClassifier",
     "Creme2SKLTransformer", "Creme2SKLClusterer"}

VARIABLES
    wrapper,   \* the adapter's class, "none" before construction
    est,       \* the type of the estimator passed by the caller
    how,       \* "ctor" or "convert": how the adapter was built
    original,  \* the state of the caller's estimator when it was wrapped
    st,        \* [d: the adapter's __dict__, heap, nextid, calls: calls made on estimators by the last call]
    aprev,     \* st as it was when the call being observed started
    alast,     \* the call being observed, until it returns: its name and arguments
    aout,      \* what that call returned or raised
    learned,   \* rows of the successful fit/partial_fit calls since the last fit call
    phase,     \* "new", or how the last fit call ended: "fit", "fit_failed"
    fitted     \* whether some fit or partial_fit call has succeeded

avars == <<wrapper, est, how, original, st, aprev, alast, aout, learned, phase, fitted>>

vars == <<nb, prev, last, out, taught, alpha, wrapper, est, how, original, st, aprev, alast, aout, learned, phase, fitted>>

\* isinstance(estimator, base_type) over the estimator base types
isinstance(e, base_type) ==
    \/ e = base_type
    \/ e = "SupervisedTransformer" /\ base_type = "Transformer"
    \/ e \in {"BinaryClassifier", "MultiClassifier"} /\ base_type = "Classifier"

hasattr(d, a) == a \in DOMAIN d

setattr(d, a, v) == [k \in (DOMAIN d) \cup {a} |-> IF k = a THEN v ELSE d[k]]

\* self.__dict__.pop(attr, None)
dict_pop(d, a) == [k \in (DOMAIN d) \ {a} |-> d[k]]

\* fit leaving the attributes in place
keep_attrs(d, attrs) == d

\* for attr in (...): self.__dict__.pop(attr, None)
RECURSIVE pop_attrs(_, _)
pop_attrs(d, attrs) ==
    IF attrs = << >> THEN d
    ELSE pop_attrs(dict_pop(d, Head(attrs)), Tail(attrs))

\* the outcome of an adapter method: the machine after it, and what it raised or returned
Return(s, v) == [st |-> s, raised |-> "none", value |-> v]
Raise(s, e) == [st |-> s, raised |-> e, value |-> << >>]

\* binding the caller's own estimator object instead of a copy
alias_estimator(s) ==
    [s EXCEPT !.d = setattr(@, "instance_", 0)]

\* self.instance_ = copy.deepcopy(self.estimator); the copy held before, if
\* any, is no longer referenced and its slot is cleared
deepcopy_estimator(s) ==
    [s EXCEPT !.heap = [o \in 0..2 |-> IF o = 0 \/ o = s.nextid THEN s.heap[0] ELSE << >>],
              !.d = setattr(@, "instance_", s.nextid),
              !.nextid = 3 - s.nextid]

\* copying the estimator on every call
always_copy(s) == deepcopy_estimator(s)

\* if not hasattr(self, 'instance_'): self.instance_ = copy.deepcopy(self.estimator)
ensure_instance(s) ==
    IF ~hasattr(s.d, "instance_") THEN deepcopy_estimator(s) ELSE s

\* self.instance_.fit_one(x, yi): the object records the sample
fit_one(s, x, yi) ==
    LET obj == s.d["instance_"]
    IN [s EXCEPT !.heap[obj] = Append(@, [x |-> x, y |-> yi]),
                 !.calls = Append(@, [obj |-> obj, m |-> "fit_one", x |-> x])]

\* a call of a single-sample prediction method on self.instance_
noted(s, m, x) ==
    [s EXCEPT !.calls = Append(@, [obj |-> s.d["instance_"], m |-> m, x |-> x])]

\* predict_one of the wrapped estimator: the last target learned (0 when
\* nothing was learned); a clusterer's assignment moves as samples stream in
predict_one(e, h, x) ==
    IF e = "Clusterer" THEN (Len(h) + x) % 2
    ELSE IF h = << >> THEN 0 ELSE h[Len(h)].y

\* predict_proba_one of the wrapped classifier: a mapping over the labels learned
predict_proba_one(h, x) ==
    [c \in {h[i].y : i \in DOMAIN h} |-> Cardinality({i \in DOMAIN h : h[i].y = c})]

\* transform_one of the wrapped transformer, as list(...values())
transform_one(h, x) == <<x>>

\* utils.check_array(X, ensure_min_samples=1, ...)
check_array_ok(X) == Len(X.rows) >= 1

\* utils.check_X_y(X, y, ...)
check_X_y_ok(X, y) == check_array_ok(X) /\ y.given /\ Len(y.v) = Len(X.rows)

\* the distinct values of a set in increasing order
RECURSIVE SortedSeq(_)
SortedSeq(S) ==
    IF S = {} THEN << >>
    ELSE LET m == CHOOSE m \in S : \A k \in S : m <= k
         IN <<m>> \o SortedSeq(S \ {m})

\* utils.multiclass.unique_labels
unique_labels(ys) == SortedSeq(Range(ys))

\* preprocessing.LabelEncoder().fit(classes).transform(y): positions in the sorted classes
LabelEncoder_code(classes, label) ==
    (CHOOSE j \in DOMAIN classes : classes[j] = label) - 1

LabelEncoder_transform(classes, ys) ==
    [i \in DOMAIN ys |-> LabelEncoder_code(classes, ys[i])]

\* LabelEncoder.inverse_transform: defined on the codes of the fitted classes
LabelEncoder_can_invert(classes, codes) ==
    \A i \in DOMAIN codes : codes[i] + 1 \in DOMAIN classes

\* handing back the codes as they are
no_decoding(classes, codes) == codes

LabelEncoder_inverse_transform(classes, codes) ==
    [i \in DOMAIN codes |-> classes[codes[i] + 1]]

\* for x, yi in STREAM_METHODS[type(X)](X, y): self.instance_.fit_one(x, yi)
RECURSIVE fit_rows(_, _, _, _)
fit_rows(s, X, ys, i) ==
    IF i > Len(X.rows) THEN s
    ELSE fit_rows(fit_one(s, X.rows[i], ys[i]), X, ys, i + 1)

\* the targets streamed beside the rows when no y is passed on
NoTargets(X) == [i \in DOMAIN X.rows |-> None]

\* for i, (x, _) in enumerate(stream.iter_array(X)): y_pred[i] = self.instance_.predict_one(x)
RECURSIVE predict_rows(_, _, _)
predict_rows(s, X, i) ==
    IF i > Len(X.rows) THEN s
    ELSE predict_rows(noted(s, "predict_one", X.rows[i]), X, i + 1)

predictions(e, s, X) ==
    [i \in DOMAIN X.rows |-> predict_one(e, s.heap[s.d["instance_"]], X.rows[i])]

\* the feature-count check of _partial_fit: hasattr(self, 'n_features_in_') and X.shape[1] != self.n_features_in_
features_mismatch(s, X) ==
    hasattr(s.d, "n_features_in_") /\ X.ncols # s.d["n_features_in_"]

(***************************************************************************)
(* Creme2SKLRegressor                                                      *)
(***************************************************************************)
Creme2SKLRegressor__partial_fit(s, X, y) ==
    IF ~check_X_y_ok(X, y) THEN Raise(s, "ValueError(check_X_y)")
    ELSE IF features_mismatch(s, X) THEN Raise(s, "ValueError(Expected features)")
    ELSE LET s1 == [s EXCEPT !.d = setattr(@, "n_features_in_", X.ncols)]
             s2 == ensure_instance(s1)
         IN Return(fit_rows(s2, X, y.v, 1), << >>)

Creme2SKLRegressor_fit(s, X, y) ==
    Creme2SKLRegressor__partial_fit(
        [s EXCEPT !.d = pop_attrs(@, <<"instance_", "n_features_in_">>)], X, y)

Creme2SKLRegressor_partial_fit(s, X, y, classes) ==
    Creme2SKLRegressor__partial_fit(s, X, y)

\* the inference prologue shared by predict, predict_proba and transform:
\* check_is_fitted, check_array, then the comparison with self.n_features_in_
inference_error(s, X) ==
    IF ~hasattr(s.d, "instance_") THEN "NotFittedError"
    ELSE IF ~check_array_ok(X) THEN "ValueError(check_array)"
    ELSE IF ~hasattr(s.d, "n_features_in_") THEN "AttributeError(n_features_in_)"
    ELSE IF X.ncols # s.d["n_features_in_"] THEN "ValueError(Expected features)"
    ELSE "none"

Creme2SKLRegressor_predict(s, X) ==
    IF inference_error(s, X) # "none" THEN Raise(s, inference_error(s, X))
    ELSE Return(predict_rows(s, X, 1), predictions("Regressor", s, X))

(***************************************************************************)
(* Creme2SKLClassifier                                                     *)
(***************************************************************************)
\* utils.multiclass._check_partial_fit_first_call(self, classes)
check_partial_fit_first_call(s, classes) ==
    IF ~hasattr(s.d, "classes_") /\ ~classes.given
    THEN Raise(s, "ValueError(classes must be passed on the first call)")
    ELSE IF classes.given
    THEN IF hasattr(s.d, "classes_")
         THEN IF s.d["classes_"] # unique_labels(classes.v)
              THEN Raise(s, "ValueError(classes is not the same as on last call)")
              ELSE Return(s, << >>)
         ELSE Return([s EXCEPT !.d = setattr(@, "classes_", unique_labels(classes.v))], << >>)
    ELSE Return(s, << >>)

\* LabelEncoder.transform raises on a label the encoder was not fitted on
LabelEncoder_can_transform(classes, ys) == Range(ys) \subseteq Range(classes)

\* the label encoding step of _partial_fit for an estimator that is no MultiClassifier
encode_targets(s, e, ys) ==
    IF ~isinstance(e, "MultiClassifier")
    THEN LET s1 == IF ~hasattr(s.d, "label_encoder_")
                   THEN [s EXCEPT !.d = setattr(@, "label_encoder_", s.d["classes_"])]
                   ELSE s
         IN IF LabelEncoder_can_transform(s1.d["label_encoder_"], ys)
            THEN [st |-> s1, raised |-> "none",
                  y |-> LabelEncoder_transform(s1.d["label_encoder_"], ys)]
            ELSE [st |-> s1, raised |-> "ValueError(y contains previously unseen labels)",
                  y |-> << >>]
    ELSE [st |-> s, raised |-> "none", y |-> ys]

\* a label check that lets every batch through
no_unseen_labels(classes, ys) == {}

\* set(y) - set(self.classes_)
unseen_labels(classes, ys) == Range(ys) \ Range(classes)

Creme2SKLClassifier__partial_fit(s, e, X, y, classes) ==
    LET first == check_partial_fit_first_call(s, classes)
        s0 == first.st
    IN IF first.raised # "none" THEN first
       ELSE IF ~check_X_y_ok(X, y) THEN Raise(s0, "ValueError(check_X_y)")
       ELSE IF features_mismatch(s0, X) THEN Raise(s0, "ValueError(Expected features)")
       ELSE LET s1 == [s0 EXCEPT !.d = setattr(@, "n_features_in_", X.ncols)]
            IN IF unseen_labels(s1.d["classes_"], y.v) # {}
               THEN Raise(s1, "ValueError(classes should include all valid labels)")
               ELSE LET s2 == ensure_instance(s1)
                        enc == encode_targets(s2, e, y.v)
                    IN IF enc.raised # "none" THEN Raise(enc.st, enc.raised)
                       ELSE Return(fit_rows(enc.st, X, enc.y, 1), << >>)

Creme2SKLClassifier_fit(s, e, X, y) ==
    Creme2SKLClassifier__partial_fit(
        [s EXCEPT !.d = pop_attrs(@, <<"classes_", "instance_", "label_encoder_", "n_features_in_">>)],
        e, X, y, [given |-> TRUE, v |-> unique_labels(y.v)])

Creme2SKLClassifier_partial_fit(s, e, X, y, classes) ==
    Creme2SKLClassifier__partial_fit(s, e, X, y, classes)

\* reshape_probas: [y_pred.get(c, 0) for c in self.classes_]
reshape_probas(classes, y_pred) == [j \in DOMAIN classes |-> Get(y_pred, classes[j], 0)]

RECURSIVE predict_proba_rows(_, _, _)
predict_proba_rows(s, X, i) ==
    IF i > Len(X.rows) THEN s
    ELSE predict_proba_rows(noted(s, "predict_proba_one", X.rows[i]), X, i + 1)

Creme2SKLClassifier_predict_proba(s, X) ==
    IF inference_error(s, X) # "none" THEN Raise(s, inference_error(s, X))
    ELSE IF ~hasattr(s.d, "classes_") THEN Raise(s, "AttributeError(classes_)")
    ELSE Return(predict_proba_rows(s, X, 1),
                [i \in DOMAIN X.rows |->
                    reshape_probas(s.d["classes_"],
                                   predict_proba_one(s.heap[s.d["instance_"]], X.rows[i]))])

Creme2SKLClassifier_predict(s, e, X) ==
    IF inference_error(s, X) # "none" THEN Raise(s, inference_error(s, X))
    ELSE LET y_pred == predictions(e, s, X)
             s1 == predict_rows(s, X, 1)
         IN IF hasattr(s.d, "label_encoder_")
            THEN IF LabelEncoder_can_invert(s.d["label_encoder_"], y_pred)
                 THEN Return(s1, LabelEncoder_inverse_transform(s.d["label_encoder_"], y_pred))
                 ELSE Raise(s1, "ValueError(y contains previously unseen labels)")
            ELSE Return(s1, y_pred)

(***************************************************************************)
(* Creme2SKLTransformer                                                    *)
(***************************************************************************)
Creme2SKLTransformer__partial_fit(s, e, X, y) ==
    IF (IF y.given THEN ~check_X_y_ok(X, y) ELSE ~check_array_ok(X))
    THEN Raise(s, "ValueError(check_X_y)")
    ELSE IF features_mismatch(s, X) THEN Raise(s, "ValueError(Expected features)")
    ELSE LET s1 == [s EXCEPT !.d = setattr(@, "n_features_in_", X.ncols)]
             s2 == ensure_instance(s1)
         IN IF isinstance(e, "SupervisedTransformer")
            THEN Return(fit_rows(s2, X, IF y.given THEN y.v ELSE NoTargets(X), 1), << >>)
            ELSE Return(fit_rows(s2, X, NoTargets(X), 1), << >>)

Creme2SKLTransformer_fit(s, e, X, y) ==
    Creme2SKLTransformer__partial_fit(
        [s EXCEPT !.d = pop_attrs(@, <<"instance_", "n_features_in_">>)], e, X, y)

Creme2SKLTransformer_partial_fit(s, e, X, y) ==
    Creme2SKLTransformer__partial_fit(s, e, X, y)

RECURSIVE transform_rows(_, _, _)
transform_rows(s, X, i) ==
    IF i > Len(X.rows) THEN s
    ELSE transform_rows(noted(s, "transform_one", X.rows[i]), X, i + 1)

Creme2SKLTransformer_transform(s, X) ==
    IF inference_error(s, X) # "none" THEN Raise(s, inference_error(s, X))
    ELSE Return(transform_rows(s, X, 1),
                [i \in DOMAIN X.rows |-> transform_one(s.heap[s.d["instance_"]], X.rows[i])])

(***************************************************************************)
(* Creme2SKLClusterer                                                      *)
(***************************************************************************)
\* learning the whole batch first and labelling every row with the final model
fit_then_label_rows(s, X, i) ==
    LET s1 == predict_rows(fit_rows(s, X, NoTargets(X), i), X, i)
    IN [s1 EXCEPT !.d = setattr(@, "labels_",
            [k \in DOMAIN X.rows |->
                predict_one("Clusterer", s1.heap[s1.d["instance_"]], X.rows[k])])]

\* label = self.instance_.fit_one(x).predict_one(x); self.labels_[i] = label
RECURSIVE fit_predict_rows(_, _, _)
fit_predict_rows(s, X, i) ==
    IF i > Len(X.rows) THEN s
    ELSE LET s1 == fit_one(s, X.rows[i], None)
             s2 == noted(s1, "predict_one", X.rows[i])
             label == predict_one("Clusterer", s2.heap[s2.d["instance_"]], X.rows[i])
             s3 == [s2 EXCEPT !.d = setattr(@, "labels_", Append(s2.d["labels_"], label))]
         IN fit_predict_rows(s3, X, i + 1)

Creme2SKLClusterer__partial_fit(s, X, y) ==
    IF ~check_array_ok(X) THEN Raise(s, "ValueError(check_array)")
    ELSE IF features_mismatch(s, X) THEN Raise(s, "ValueError(Expected features)")
    ELSE LET s1 == [s EXCEPT !.d = setattr(@, "n_features_in_", X.ncols)]
             s2 == ensure_instance(s1)
             s3 == [s2 EXCEPT !.d = setattr(@, "labels_", << >>)]
         IN Return(fit_predict_rows(s3, X, 1), << >>)

Creme2SKLClusterer_fit(s, X, y) ==
    Creme2SKLClusterer__partial_fit(
        [s EXCEPT !.d = pop_attrs(@, <<"instance_", "n_features_in_">>)], X, y)

Creme2SKLClusterer_partial_fit(s, X, y) ==
    Creme2SKLClusterer__partial_fit(s, X, y)

Creme2SKLClusterer_predict(s, X) ==
    IF ~hasattr(s.d, "instance_") THEN Raise(s, "NotFittedError")
    ELSE IF ~check_array_ok(X) THEN Raise(s, "ValueError(check_array)")
    ELSE Return(predict_rows(s, X, 1), predictions("Clusterer", s, X))

(***************************************************************************)
(* Construction.                                                           *)
(***************************************************************************)
\* the estimator type each adapter's __init__ accepts
accepts(w, e) ==
    CASE w = "Creme2SKLRegressor" -> isinstance(e, "Regressor")
      [] w = "Creme2SKLClassifier" ->
            isinstance(e, "BinaryClassifier") \/ isinstance(e, "MultiClassifier")
      [] w = "Creme2SKLTransformer" -> isinstance(e, "Transformer")
      [] w = "Creme2SKLClusterer" -> isinstance(e, "Clusterer")

\* the wrappers list of convert_creme_to_sklearn, in its order
convert_wrappers ==
    << <<"BinaryClassifier", "Creme2SKLClassifier">>,
       <<"Clusterer", "Creme2SKLClusterer">>,
       <<"MultiClassifier", "Creme2SKLClassifier">>,
       <<"Regressor", "Creme2SKLRegressor">>,
       <<"Transformer", "Creme2SKLTransformer">> >>

\* for base_type, wrapper in wrappers: if isinstance(estimator, base_type): ...
RECURSIVE convert_lookup(_, _)
convert_lookup(e, i) ==
    IF i > Len(convert_wrappers) THEN "none"
    ELSE IF isinstance(e, convert_wrappers[i][1]) THEN convert_wrappers[i][2]
    ELSE convert_lookup(e, i + 1)

\* the machine holding the caller's estimator (object 0) and no adapter attribute
NewMachine(template) ==
    [d |-> EmptyMap,
     heap |-> [o \in 0..2 |-> IF o = 0 THEN template ELSE << >>],
     nextid |-> 1,
     calls |-> << >>]

\* what the caller's estimator may have learned before it is wrapped
TemplateStates == {<< >>, <<[x |-> 1, y |-> 0]>>}

(***************************************************************************)
(* Inputs of the adapter calls.                                            *)
(***************************************************************************)
XTables ==
    UNION {[ncols : ColCounts, rows : [1..n -> RowVals]] : n \in 0..MaxLearned}

NoY == [given |-> FALSE, v |-> << >>]

GivenY(X) == [given |-> TRUE, v |-> [i \in DOMAIN X.rows |-> LabelOf(X.rows[i])]]

NoClasses == [given |-> FALSE, v |-> << >>]
ClassesArgs == {NoClasses, [given |-> TRUE, v |-> <<10>>], [given |-> TRUE, v |-> <<10, 20>>]}

\* the rows of a call as the learning calls they stand for, labels as passed
RowsOf(X, y) ==
    [i \in DOMAIN X.rows |-> [x |-> X.rows[i], y |-> IF y.given THEN y.v[i] ELSE None]]

\* rows learned through the adapter by the wrapped instance so far
LearnedSoFar(s) ==
    IF hasattr(s.d, "instance_")
    THEN Len(s.heap[s.d["instance_"]]) - Len(s.heap[0])
    ELSE 0

Started(s) == [s EXCEPT !.calls = << >>]

Outcome(r) == [raised |-> r.raised, value |-> r.value]

(***************************************************************************)
(* The adapter state machine.                                              *)
(***************************************************************************)
NoResult == [raised |-> "none", value |-> << >>]

AdapterInit ==
    /\ wrapper = "none"
    /\ est = "none"
    /\ how = "none"
    /\ original = << >>
    /\ st = NewMachine(<< >>)
    /\ aprev = NewMachine(<< >>)
    /\ alast = NoCall
    /\ aout = NoResult
    /\ learned = << >>
    /\ phase = "new"
    /\ fitted = FALSE

\* Creme2SKLRegressor(estimator), Creme2SKLClassifier(estimator), ...
Construct ==
    /\ alast = NoCall
    /\ wrapper = "none"
    /\ \E w \in Wrappers, e \in EstimatorTypes, t \in TemplateStates :
          /\ alast' = [op |-> "__init__", wrapper |-> w, estimator |-> e]
          /\ aprev' = Started(st)
          /\ IF accepts(w, e)
             THEN /\ wrapper' = w
                  /\ est' = e
                  /\ how' = "ctor"
                  /\ original' = t
                  /\ st' = NewMachine(t)
                  /\ aout' = [raised |-> "none", value |-> << >>]
             ELSE /\ aout' = [raised |-> "ValueError(estimator type)", value |-> << >>]
                  /\ UNCHANGED <<wrapper, est, how, original, st>>
    /\ UNCHANGED <<learned, phase, fitted>>

\* convert_creme_to_sklearn(estimator), for an estimator that is no Pipeline
Convert ==
    /\ alast = NoCall
    /\ wrapper = "none"
    /\ \E e \in EstimatorTypes, t \in TemplateStates :
          /\ alast' = [op |-> "convert_creme_to_sklearn", estimator |-> e]
          /\ aprev' = Started(st)
          /\ IF convert_lookup(e, 1) # "none"
             THEN /\ wrapper' = convert_lookup(e, 1)
                  /\ est' = e
                  /\ how' = "convert"
                  /\ original' = t
                  /\ st' = deepcopy_estimator(NewMachine(t))
                  /\ aout' = [raised |-> "none", value |-> << >>]
             ELSE /\ aout' = [raised |-> "ValueError(no appropriate wrapper)", value |-> << >>]
                  /\ UNCHANGED <<wrapper, est, how, original, st>>
    /\ UNCHANGED <<learned, phase, fitted>>

\* the targets a caller passes to fit and partial_fit of each adapter
TargetArgs(X) ==
    IF wrapper \in {"Creme2SKLRegressor", "Creme2SKLClassifier"} THEN {GivenY(X)}
    ELSE IF wrapper = "Creme2SKLTransformer" THEN {GivenY(X), NoY}
    ELSE {NoY}

fit(s, X, y) ==
    CASE wrapper = "Creme2SKLRegressor" -> Creme2SKLRegressor_fit(s, X, y)
      [] wrapper = "Creme2SKLClassifier" -> Creme2SKLClassifier_fit(s, est, X, y)
      [] wrapper = "Creme2SKLTransformer" -> Creme2SKLTransformer_fit(s, est, X, y)
      [] wrapper = "Creme2SKLClusterer" -> Creme2SKLClusterer_fit(s, X, y)

partial_fit(s, X, y, classes) ==
    CASE wrapper = "Creme2SKLRegressor" -> Creme2SKLRegressor_partial_fit(s, X, y, classes)
      [] wrapper = "Creme2SKLClassifier" -> Creme2SKLClassifier_partial_fit(s, est, X, y, classes)
      [] wrapper = "Creme2SKLTransformer" -> Creme2SKLTransformer_partial_fit(s, est, X, y)
      [] wrapper = "Creme2SKLClusterer" -> Creme2SKLClusterer_partial_fit(s, X, y)

predict(s, X) ==
    CASE wrapper = "Creme2SKLRegressor" -> Creme2SKLRegressor_predict(s, X)
      [] wrapper = "Creme2SKLClassifier" -> Creme2SKLClassifier_predict(s, est, X)
      [] wrapper = "Creme2SKLClusterer" -> Creme2SKLClusterer_predict(s, X)

Fit ==
    /\ alast = NoCall
    /\ wrapper # "none"
    /\ \E X \in XTables :
          /\ Len(X.rows) <= MaxLearned
          /\ \E y \in TargetArgs(X) :
                LET r == fit(Started(st), X, y)
                IN /\ st' = r.st
                   /\ aprev' = Started(st)
                   /\ alast' = [op |-> "fit", X |-> X, y |-> y]
                   /\ aout' = Outcome(r)
                   /\ learned' = IF r.raised = "none" THEN RowsOf(X, y) ELSE << >>
                   /\ phase' = IF r.raised = "none" THEN "fit" ELSE "fit_failed"
                   /\ fitted' = (fitted \/ r.raised = "none")
    /\ UNCHANGED <<wrapper, est, how, original>>

PartialFit ==
    /\ alast = NoCall
    /\ wrapper # "none"
    /\ \E X \in XTables :
          /\ LearnedSoFar(st) + Len(X.rows) <= MaxLearned
          /\ \E y \in TargetArgs(X),
                classes \in (IF wrapper = "Creme2SKLClassifier" THEN ClassesArgs ELSE {NoClasses}) :
                LET r == partial_fit(Started(st), X, y, classes)
                IN /\ st' = r.st
                   /\ aprev' = Started(st)
                   /\ alast' = [op |-> "partial_fit", X |-> X, y |-> y, classes |-> classes]
                   /\ aout' = Outcome(r)
                   /\ learned' = IF r.raised = "none" THEN learned \o RowsOf(X, y) ELSE learned
                   /\ fitted' = (fitted \/ r.raised = "none")
    /\ UNCHANGED <<wrapper, est, how, original, phase>>

Predict ==
    /\ alast = NoCall
    /\ wrapper \in {"Creme2SKLRegressor", "Creme2SKLClassifier", "Creme2SKLClusterer"}
    /\ \E X \in XTables :
          LET r == predict(Started(st), X)
          IN /\ st' = r.st
             /\ aprev' = Started(st)
             /\ alast' = [op |-> "predict", X |-> X]
             /\ aout' = Outcome(r)
    /\ UNCHANGED <<wrapper, est, how, original, learned, phase, fitted>>

PredictProba ==
    /\ alast = NoCall
    /\ wrapper = "Creme2SKLClassifier"
    /\ \E X \in XTables :
          LET r == Creme2SKLClassifier_predict_proba(Started(st), X)
          IN /\ st' = r.st
             /\ aprev' = Started(st)
             /\ alast' = [op |-> "predict_proba", X |-> X]
             /\ aout' = Outcome(r)
    /\ UNCHANGED <<wrapper, est, how, original, learned, phase, fitted>>

Transform ==
    /\ alast = NoCall
    /\ wrapper = "Creme2SKLTransformer"
    /\ \E X \in XTables :
          LET r == Creme2SKLTransformer_transform(Started(st), X)
          IN /\ st' = r.st
             /\ aprev' = Started(st)
             /\ alast' = [op |-> "transform", X |-> X]
             /\ aout' = Outcome(r)
    /\ UNCHANGED <<wrapper, est, how, original, learned, phase, fitted>>

\* the call has returned to its caller: its frame (alast, aprev, aout) is dropped
AdapterReturn ==
    /\ alast # NoCall
    /\ alast' = NoCall
    /\ aprev' = NewMachine(<< >>)
    /\ aout' = NoResult
    /\ st' = Started(st)
    /\ UNCHANGED <<wrapper, est, how, original, learned, phase, fitted>>

AdapterNext ==
    \/ AdapterReturn
    \/ Construct
    \/ Convert
    \/ Fit
    \/ PartialFit
    \/ Predict
    \/ PredictProba
    \/ Transform

(***************************************************************************)
(* Specifications: one object of each part, the other part standing still. *)
(***************************************************************************)
Init == NBInit /\ AdapterInit

Next ==
    \/ NBReturn /\ UNCHANGED avars
    \/ LearnOne /\ UNCHANGED avars
    \/ LearnMany /\ UNCHANGED avars
    \/ PClass /\ UNCHANGED avars
    \/ JointLogLikelihood /\ UNCHANGED avars
    \/ JointLogLikelihoodMany /\ UNCHANGED avars

Spec == Init /\ [][Next]_vars

NextAdapter ==
    \/ AdapterReturn /\ UNCHANGED nbvars
    \/ Construct /\ UNCHANGED nbvars
    \/ Convert /\ UNCHANGED nbvars
    \/ Fit /\ UNCHANGED nbvars
    \/ PartialFit /\ UNCHANGED nbvars
    \/ Predict /\ UNCHANGED nbvars
    \/ PredictProba /\ UNCHANGED nbvars
    \/ Transform /\ UNCHANGED nbvars

\* the adapters run beside a ComplementNB built with the default alpha
InitAdapter == Init /\ alpha = 1

SpecAdapter == InitAdapter /\ [][NextAdapter]_vars

(***************************************************************************)
(* Properties of the adapters.                                             *)
(***************************************************************************)
\* the target the wrapped instance is handed for a row whose target is y, once
\* the classes are known: the label's code for an estimator that is no
\* MultiClassifier, y itself otherwise, nothing where no target is passed on
ExpectedTarget(classes, y) ==
    CASE wrapper = "Creme2SKLClassifier" /\ est = "BinaryClassifier" ->
            LabelEncoder_code(classes, y)
      [] wrapper = "Creme2SKLClusterer" -> None
      [] wrapper = "Creme2SKLTransformer" /\ est = "Transformer" -> None
      [] OTHER -> y

\* the learning calls the rows stand for
ExpectedCalls(classes, rows) ==
    [i \in DOMAIN rows |-> [x |-> rows[i].x, y |-> ExpectedTarget(classes, rows[i].y)]]

ClassesOf(s) == IF hasattr(s.d, "classes_") THEN s.d["classes_"] ELSE << >>

\* C7: after a successful fit(X, y), whatever came before, the wrapped instance
\* is a fresh copy of the caller's estimator that has received exactly the rows
\* of X, one learn call per row; feature_count is the column count of X; for a
\* classifier known_classes are the distinct labels of y and the label codec,
\* where one is used, is built from them.
C7_FitReflectsOnlyThatCall ==
    (alast.op = "fit" /\ aout.raised = "none") =>
        /\ hasattr(st.d, "instance_")
        /\ st.d["instance_"] # 0
        /\ hasattr(aprev.d, "instance_") => st.d["instance_"] # aprev.d["instance_"]
        /\ st.heap[st.d["instance_"]]
             = original \o ExpectedCalls(unique_labels(alast.y.v), RowsOf(alast.X, alast.y))
        /\ st.d["n_features_in_"] = alast.X.ncols
        /\ wrapper = "Creme2SKLClassifier" =>
              /\ st.d["classes_"] = unique_labels(alast.y.v)
              /\ IF est = "BinaryClassifier"
                 THEN st.d["label_encoder_"] = unique_labels(alast.y.v)
                 ELSE ~hasattr(st.d, "label_encoder_")

\* a binary classifier adapter fitted again, on another column count and other labels
C7_Witness ==
    /\ alast.op = "fit"
    /\ aout.raised = "none"
    /\ wrapper = "Creme2SKLClassifier"
    /\ est = "BinaryClassifier"
    /\ hasattr(aprev.d, "instance_")
    /\ hasattr(aprev.d, "n_features_in_")
    /\ aprev.d["n_features_in_"] # alast.X.ncols
    /\ hasattr(aprev.d, "label_encoder_")
    /\ aprev.d["label_encoder_"] # st.d["label_encoder_"]
    /\ Len(aprev.heap[aprev.d["instance_"]]) > Len(original)

\* C8: after a successful fit followed by partial_fit calls (and no other
\* fit), the wrapped instance has received one learn call per row of the
\* successful calls, in call order and row order, all on one object: a
\* partial_fit keeps the instance and what it has learned.
C8_PartialFitAccumulates ==
    /\ phase = "fit" =>
          /\ hasattr(st.d, "instance_")
          /\ st.heap[st.d["instance_"]] = original \o ExpectedCalls(ClassesOf(st), learned)
    /\ (alast.op = "partial_fit" /\ hasattr(aprev.d, "instance_")) =>
          /\ hasattr(st.d, "instance_")
          /\ st.d["instance_"] = aprev.d["instance_"]
          /\ Len(aprev.heap[aprev.d["instance_"]]) <= Len(st.heap[st.d["instance_"]])
          /\ SubSeq(st.heap[st.d["instance_"]], 1, Len(aprev.heap[aprev.d["instance_"]]))
               = aprev.heap[aprev.d["instance_"]]

\* a successful partial_fit after a successful fit, with two different rows learned
C8_Witness ==
    /\ phase = "fit"
    /\ alast.op = "partial_fit"
    /\ aout.raised = "none"
    /\ Len(learned) = 2
    /\ learned[1] # learned[2]
    /\ Len(st.heap[st.d["instance_"]]) = Len(original) + 2

\* C9: however the adapter was built and whatever is called, the estimator the
\* caller passed receives no call and keeps the state it had when it was
\* wrapped, and the wrapped instance is another object.
C9_TemplateNeverTouched ==
    wrapper # "none" =>
        /\ st.heap[0] = original
        /\ hasattr(st.d, "instance_") => st.d["instance_"] # 0
        /\ \A i \in DOMAIN st.calls : st.calls[i].obj # 0

\* an adapter whose instance has learned two rows and then predicted
C9_Witness ==
    /\ wrapper # "none"
    /\ fitted
    /\ alast.op \in {"predict", "predict_proba", "transform"}
    /\ aout.raised = "none"
    /\ hasattr(st.d, "instance_")
    /\ Len(st.heap[st.d["instance_"]]) = Len(original) + 2
    /\ Len(st.calls) > 0

\* C10: however the adapter was built, predict, predict_proba or transform
\* called (on a well-formed X) before any successful fit or partial_fit fails
\* with the not-fitted error and returns no predictions.
C10_InferenceBeforeFitIsNotFitted ==
    (/\ alast.op \in {"predict", "predict_proba", "transform"}
     /\ ~fitted
     /\ check_array_ok(alast.X))
        => (aout.raised = "NotFittedError" /\ aout.value = << >>)

\* C11: once an adapter is fitted with feature_count = n, every predict,
\* predict_proba or transform call on a well-formed X whose column count is not
\* n fails with the feature-count error and makes no single-sample prediction
\* call on the wrapped instance.
C11_WrongColumnCountIsRejected ==
    (/\ alast.op \in {"predict", "predict_proba", "transform"}
     /\ hasattr(aprev.d, "instance_")
     /\ hasattr(aprev.d, "n_features_in_")
     /\ check_array_ok(alast.X)
     /\ alast.X.ncols # aprev.d["n_features_in_"])
        => (aout.raised = "ValueError(Expected features)" /\ st.calls = << >>)

\* C12: feature_count is set by the first successful fit or partial_fit, so it
\* exists only on an adapter that has learned; a partial_fit, predict,
\* predict_proba or transform call leaves an existing feature_count as it is;
\* and a partial_fit whose X has another column count is rejected with an error
\* and no learn call.
C12_FeatureCountSetOnceUntilFit ==
    /\ hasattr(st.d, "n_features_in_") => fitted
    /\ (/\ alast.op \in {"partial_fit", "predict", "predict_proba", "transform"}
        /\ hasattr(aprev.d, "n_features_in_"))
          => /\ hasattr(st.d, "n_features_in_")
             /\ st.d["n_features_in_"] = aprev.d["n_features_in_"]
    /\ (/\ alast.op = "partial_fit"
        /\ hasattr(aprev.d, "n_features_in_")
        /\ alast.X.ncols # aprev.d["n_features_in_"])
          => (aout.raised # "none" /\ st.calls = << >>)

\* the value errors a partial_fit can end with
ValueErrors ==
    {"ValueError(classes must be passed on the first call)",
     "ValueError(classes is not the same as on last call)",
     "ValueError(check_X_y)",
     "ValueError(Expected features)",
     "ValueError(classes should include all valid labels)",
     "ValueError(y contains previously unseen labels)"}

\* known_classes as a partial_fit call finds them: those established before,
\* else the ones the call supplies
KnownClasses(s, classes) ==
    IF hasattr(s.d, "classes_") THEN s.d["classes_"] ELSE unique_labels(classes.v)

\* C13: a classifier partial_fit whose y holds a label outside known_classes
\* fails with a value error, and the wrapped instance receives no learn call
\* for any row of the batch, the rows with known labels included.
C13_UnknownLabelRejectsWholeBatch ==
    (/\ alast.op = "partial_fit"
     /\ wrapper = "Creme2SKLClassifier"
     /\ hasattr(aprev.d, "classes_") \/ alast.classes.given
     /\ ~(Range(alast.y.v) \subseteq Range(KnownClasses(aprev, alast.classes))))
        => /\ aout.raised \in ValueErrors
           /\ st.calls = << >>
           /\ st.heap = aprev.heap

\* a two-row batch, first label known and second unknown, refused at the label
\* check of an adapter that holds an instance
C13_Witness ==
    /\ alast.op = "partial_fit"
    /\ wrapper = "Creme2SKLClassifier"
    /\ hasattr(aprev.d, "instance_")
    /\ Len(alast.y.v) = 2
    /\ alast.y.v[1] \in Range(KnownClasses(aprev, alast.classes))
    /\ alast.y.v[2] \notin Range(KnownClasses(aprev, alast.classes))
    /\ aout.raised = "ValueError(classes should include all valid labels)"
    /\ st.calls = << >>

\* C14: for a classifier adapter around a binary-only estimator that has been
\* fitted, the wrapped instance is handed the codec's integer code of each
\* label, every element predict returns is the label the codec decodes the
\* instance's answer to (a member of known_classes, never the code), and the
\* codec stays the one built at first fit until the next fit.
C14_BinaryLabelsRoundTrip ==
    (wrapper = "Creme2SKLClassifier" /\ est = "BinaryClassifier" /\ fitted) =>
        /\ (alast.op \in {"fit", "partial_fit"} /\ aout.raised = "none") =>
              LET h == st.heap[st.d["instance_"]]
                  n == Len(alast.y.v)
              IN \A i \in 1..n :
                    h[Len(h) - n + i].y
                        = LabelEncoder_code(st.d["label_encoder_"], alast.y.v[i])
        /\ (alast.op = "predict" /\ aout.raised = "none") =>
              /\ hasattr(st.d, "label_encoder_")
              /\ \A i \in DOMAIN alast.X.rows :
                    /\ aout.value[i] \in Range(st.d["classes_"])
                    /\ aout.value[i] \notin {0, 1}
                    /\ LabelEncoder_code(st.d["label_encoder_"], aout.value[i])
                         = predict_one(est, st.heap[st.d["instance_"]], alast.X.rows[i])
        /\ (alast.op \in {"partial_fit", "predict", "predict_proba"}
              /\ hasattr(aprev.d, "label_encoder_")) =>
              /\ hasattr(st.d, "label_encoder_")
              /\ st.d["label_encoder_"] = aprev.d["label_encoder_"]

\* a binary classifier adapter fitted on both labels whose predict returns the
\* second label, which the instance knows as code 1
C14_Witness ==
    /\ wrapper = "Creme2SKLClassifier"
    /\ est = "BinaryClassifier"
    /\ fitted
    /\ alast.op = "predict"
    /\ aout.raised = "none"
    /\ st.d["label_encoder_"] = <<10, 20>>
    /\ \E i \in DOMAIN aout.value :
          /\ aout.value[i] = 20
          /\ predict_one(est, st.heap[st.d["instance_"]], alast.X.rows[i]) = 1

\* the key under which the wrapped instance knows the class known_classes[j]:
\* the label's code where a label codec is in use, the label itself otherwise
InstanceKey(classes, j) == ExpectedTarget(classes, classes[j])

\* C15: on a fitted classifier adapter predict_proba(X) returns one row per row
\* of X, in order, with one column per member of known_classes in that order;
\* column j holds what the instance's predict_proba_one assigned to the class
\* known_classes[j] for the row, and 0 only when the mapping has no entry for it.
C15_ProbabilitiesAlignedWithClasses ==
    (alast.op = "predict_proba" /\ fitted /\ aout.raised = "none") =>
        LET classes == st.d["classes_"]
            history == st.heap[st.d["instance_"]]
        IN /\ Len(aout.value) = Len(alast.X.rows)
           /\ \A i \in DOMAIN alast.X.rows :
                 LET y_pred == predict_proba_one(history, alast.X.rows[i])
                 IN /\ Len(aout.value[i]) = Len(classes)
                    /\ \A j \in DOMAIN classes :
                          aout.value[i][j] = Get(y_pred, InstanceKey(classes, j), 0)

\* C16: a successful fit or partial_fit of the clusterer adapter over rows
\* 1..n calls the wrapped instance strictly in the order learn(row 1),
\* predict(row 1), learn(row 2), predict(row 2), ...; the label of row i is the
\* instance's prediction once it has learned everything up to row i and not yet
\* row i+1; and labels_ holds one label per row of the call.
C16_ClustererLabelsOnline ==
    (/\ wrapper = "Creme2SKLClusterer"
     /\ alast.op \in {"fit", "partial_fit"}
     /\ aout.raised = "none") =>
        LET inst == st.d["instance_"]
            rows == alast.X.rows
            n == Len(rows)
            history == st.heap[inst]
            before == Len(history) - n
        IN /\ Len(st.calls) = 2 * n
           /\ \A i \in 1..n :
                 /\ st.calls[2 * i - 1] = [obj |-> inst, m |-> "fit_one", x |-> rows[i]]
                 /\ st.calls[2 * i] = [obj |-> inst, m |-> "predict_one", x |-> rows[i]]
           /\ Len(st.d["labels_"]) = n
           /\ \A i \in 1..n :
                 st.d["labels_"][i]
                     = predict_one("Clusterer", SubSeq(history, 1, before + i), rows[i])

\* a two-row batch whose first label differs from what the final model says
C16_Witness ==
    /\ wrapper = "Creme2SKLClusterer"
    /\ alast.op \in {"fit", "partial_fit"}
    /\ aout.raised = "none"
    /\ Len(alast.X.rows) = 2
    /\ st.d["labels_"][1]
         # predict_one("Clusterer", st.heap[st.d["instance_"]], alast.X.rows[1])

\* what a learning call leaves behind: feature_count, the wrapped instance's
\* learning history, known_classes
Observable(s) ==
    [feature_count |-> Get(s.d, "n_features_in_", None),
     history |-> IF hasattr(s.d, "instance_") THEN s.heap[s.d["instance_"]] ELSE << >>,
     known_classes |-> Get(s.d, "classes_", << >>)]

\* C17: a partial_fit(X, y) call made while no wrapped instance exists (for the
\* classifier: without a classes argument), on input that fit(X, y) accepts
\* from the same state, succeeds and leaves the feature_count, the learning
\* history and the known_classes that fit(X, y) would have left.
C17_FirstPartialFitIsFit ==
    (/\ alast.op = "partial_fit"
     /\ ~hasattr(aprev.d, "instance_")
     /\ ~alast.classes.given
     /\ fit(aprev, alast.X, alast.y).raised = "none")
        => /\ aout.raised = "none"
           /\ Observable(st) = Observable(fit(aprev, alast.X, alast.y).st)

(***************************************************************************)
(* Further properties of ComplementNB.                                     *)
(***************************************************************************)
\* C18: once at least one sample was learned, through learn_one or learn_many
\* in any mix, p_class(c) is the number of learned samples labelled c over the
\* number of learned samples.
C18_PriorIsRelativeFrequency ==
    (last.op = "p_class" /\ SumValues(taught) > 0) =>
        out = Returned(Rat(Get(taught, last.c, 0), SumValues(taught)))

\* two samples of one label and one of the other, learned through both paths:
\* the prior of the first label is 2/3
C18_Witness ==
    /\ last.op = "p_class"
    /\ last.c = "a"
    /\ taught = [c \in Classes |-> IF c = "a" THEN 2 ELSE 1]
    /\ \E f \in DOMAIN nb.feature_counts : nb.feature_counts[f].kind = "dict"
    /\ out = Returned([num |-> 2, den |-> 3])

\* the complement rate with alpha as the smoothing strength
smoothed_num(s, f, c) == Get(s.feature_totals, f, 0) - feature_count(s, f, c) + alpha
smoothed_den(s, c) == Get(s.class_totals, c, 0) + alpha * Cardinality(DOMAIN s.feature_counts)

\* the log-likelihood of x for class c under those rates, as a product
RECURSIVE smoothed_terms(_, _, _, _)
smoothed_terms(s, x, c, todo) ==
    IF todo = {} THEN [num |-> 1, den |-> 1]
    ELSE LET f == CHOOSE f \in todo : TRUE
             rest == smoothed_terms(s, x, c, todo \ {f})
         IN [num |-> Pow(smoothed_num(s, f, c), x[f]) * rest.num,
             den |-> Pow(smoothed_den(s, c), x[f]) * rest.den]

\* the rates are positive, so that their logarithms exist
SmoothedDefined(s, x, c) ==
    \A f \in DOMAIN x : smoothed_num(s, f, c) > 0 /\ smoothed_den(s, c) > 0

\* C19: joint_log_likelihood and joint_log_likelihood_many score with the
\* complement rate (feature_totals[f] - feature_counts[f][c] + alpha) /
\* (class_totals[c] + alpha * number of distinct features), alpha being the
\* constructor parameter.  (For the batch method: on a table whose columns
\* keep their order and a model with a feature entry for every class.)
C19_AlphaIsTheSmoothingStrength ==
    /\ (last.op = "joint_log_likelihood" /\ out.raised = "none") =>
          \A c \in DOMAIN nb.class_counts :
              SmoothedDefined(nb, last.x, c) =>
                  LET p == smoothed_terms(nb, last.x, c, DOMAIN last.x)
                  IN out.value[c] = Rat(p.num, p.den)
    /\ (/\ last.op = "joint_log_likelihood_many"
        /\ out.raised = "none"
        /\ fwc_columns(nb, last.X) = last.X.columns
        /\ fwc_index(nb) = DOMAIN nb.class_counts) =>
          \A i \in DOMAIN last.X.rows, c \in DOMAIN nb.class_counts :
              LET x == RowAsDict(last.X, i)
              IN SmoothedDefined(nb, x, c) =>
                    LET p == smoothed_terms(nb, x, c, DOMAIN x)
                    IN out.value[i][c] = Rat(p.num, p.den)

\* C20: over a learn_one or learn_many call (frequencies are non-negative) no
\* counter decreases or disappears: class_counts[c], class_totals[c],
\* feature_totals[f] and feature_counts[f].get(c, 0) are at least what they
\* were before the call, and every key is kept.
C20_CountersNeverDecrease ==
    last.op \in {"learn_one", "learn_many"} =>
        /\ DOMAIN prev.class_counts \subseteq DOMAIN nb.class_counts
        /\ DOMAIN prev.class_totals \subseteq DOMAIN nb.class_totals
        /\ DOMAIN prev.feature_totals \subseteq DOMAIN nb.feature_totals
        /\ DOMAIN prev.feature_counts \subseteq DOMAIN nb.feature_counts
        /\ \A f \in Features, c \in Classes :
              /\ Get(nb.class_counts, c, 0) >= Get(prev.class_counts, c, 0)
              /\ Get(nb.class_totals, c, 0) >= Get(prev.class_totals, c, 0)
              /\ Get(nb.feature_totals, f, 0) >= Get(prev.feature_totals, f, 0)
              /\ feature_count(nb, f, c) >= feature_count(prev, f, c)

\* C21: in every state in which some feature has been observed,
\* joint_log_likelihood is well defined for every query: for every observed
\* class c (a class whose class_totals[c] is 0 included) and every feature f,
\* seen or not, the denominator class_totals[c] + number of distinct features
\* is positive and the numerator feature_totals[f] - feature_counts[f].get(c, 0)
\* + 1 is at least 1, and the call raises nothing.
C21_LikelihoodIsWellDefined ==
    DOMAIN nb.feature_counts # {} =>
        /\ \A c \in DOMAIN nb.class_counts, f \in Features :
              /\ rate_den(nb, c) > 0
              /\ rate_num(nb, f, c) >= 1
        /\ last.op = "joint_log_likelihood" => out.raised = "none"

\* a query naming a never-seen feature, scored for a class whose total is 0
C21_Witness ==
    /\ last.op = "joint_log_likelihood"
    /\ DOMAIN nb.feature_counts # {}
    /\ out.raised = "none"
    /\ \E c \in DOMAIN nb.class_counts : Get(nb.class_totals, c, 0) = 0
    /\ \E f \in DOMAIN last.x : f \notin DOMAIN nb.feature_counts /\ last.x[f] = 1

\* C22: p_class, joint_log_likelihood and joint_log_likelihood_many leave
\* class_counts, feature_counts, feature_totals and class_totals as they were,
\* key sets included: a never-seen feature or class in a query is not
\* registered.
C22_QueriesLeaveTheCountersAlone ==
    last.op \in {"p_class", "joint_log_likelihood", "joint_log_likelihood_many"} =>
        /\ nb = prev
        /\ DOMAIN nb.class_counts = DOMAIN prev.class_counts
        /\ DOMAIN nb.feature_counts = DOMAIN prev.feature_counts
        /\ DOMAIN nb.feature_totals = DOMAIN prev.feature_totals
        /\ DOMAIN nb.class_totals = DOMAIN prev.class_totals

\* a trained model scoring a query that names a never-seen feature, for a
\* class that has no class_totals entry yet
C22_Witness ==
    /\ last.op = "joint_log_likelihood"
    /\ out.raised = "none"
    /\ \E f \in DOMAIN last.x : f \notin DOMAIN prev.feature_totals
    /\ \E c \in DOMAIN prev.class_counts : c \notin DOMAIN prev.class_totals

\* the state an adapter owns: the wrapped instance (presence and learning
\* history), feature_count, known_classes and the label codec
Owned(s) ==
    [instance |-> hasattr(s.d, "instance_"),
     history |-> IF hasattr(s.d, "instance_") THEN s.heap[s.d["instance_"]] ELSE << >>,
     feature_count |-> Get(s.d, "n_features_in_", None),
     known_classes |-> Get(s.d, "classes_", << >>),
     label_codec |-> Get(s.d, "label_encoder_", << >>)]

\* C23: a partial_fit call that fails leaves the wrapped instance, its
\* learning history, feature_count, known_classes and the label codec exactly
\* as they were before the call, also when it is the first fitting call on an
\* unfitted adapter.
C23_FailedPartialFitChangesNothing ==
    (alast.op = "partial_fit" /\ aout.raised # "none") => Owned(st) = Owned(aprev)

====
